---------------------------- MODULE Spec2Model ----------------------------
(***************************************************************************)
(* A model of SmartClient (src/chatbot/smart_client.py): the multi-key /   *)
(* multi-model failover client.  The state is the client object's fields;  *)
(* there is one action per public operation, and generate() is split at    *)
(* its blocking model call (the only place where it waits).                *)
(*                                                                         *)
(* Time is counted in whole minutes.  datetime.now() is read as `now`,     *)
(* which never goes backwards; it advances only while the program waits    *)
(* (idle between operations, or blocked in the model call).                *)
(*                                                                         *)
(* The model call (client.models.generate_content) either returns a        *)
(* response or raises an exception with a message; print and response.text *)
(* are taken not to raise.  In Spec the client is used by one caller at a  *)
(* time; ConcSpec has two callers inside generate() at once.               *)
(***************************************************************************)
EXTENDS Integers, Sequences, FiniteSets, TLC

(***************************************************************************)
(* Bounds of the model.                                                    *)
(***************************************************************************)
\* GOOGLE_API_KEY_1 .. GOOGLE_API_KEY_MaxKeys are the environment slots looked at
MaxKeys == 2
\* generate() is called at most this many times in a behaviour
MaxRequests == 4
\* the clock stops advancing at this minute
MaxTime == 6
\* model calls issued in a behaviour: a generate call begins only when the
\* attempts it may make (one per combination) still fit
MaxCalls == 6
\* model calls issued by the two callers together, where there are two
MaxThreadCalls == 4
\* text fragments in an error message whose classification is examined
MaxFragments == 2

(***************************************************************************)
(* Program constants.                                                      *)
(***************************************************************************)
\* timedelta(minutes=5) of the quota cooldown
CooldownMinutes == 5
\* consecutive_failures >= 3 is skipped
MaxConsecutiveFailures == 3

\* Python's None, for a timestamp that is not set (timestamps are >= 0)
None == -1

\* self.models
models ==
    << "models/gemini-2.0-flash", "models/gemini-2.5-flash",
       "models/gemini-2.0-flash-001" >>

VARIABLES
    constructed,          \* SmartClient() returned (FALSE: it raised ValueError)
    api_keys,             \* self.api_keys
    combination_status,   \* self.combination_status
    current_key_index,    \* self.current_key_index (0-based)
    current_model_index,  \* self.current_model_index (0-based)
    total_requests,       \* self.total_requests
    successful_requests,  \* self.successful_requests
    failed_requests,      \* self.failed_requests
    failover_count,       \* self.failover_count
    client_key,           \* the api key self.client was created with
    now,                  \* datetime.now(), in minutes
    pc,                   \* "idle" | "loop" | "inflight": where generate() is
    attempt,              \* generate's local `attempt`
    inflight,             \* the model call being waited for: << api key, key_idx, model >>
    ret,                  \* what the last operation returned or raised
    call_log,             \* history: the model calls of the current/last generate call
    last_outcome,         \* history: per combination, the last outcome recorded
    auth_raised,          \* history: combinations whose auth error a generate call propagated
    calls_made,           \* history: the model calls issued since construction
    call_start,           \* history: what held when the current/last generate call began
    threads,              \* two callers: each caller's position in generate() and its locals
    performed,            \* two callers, history: the `+= 1` statements completed, per counter
    auth_calls            \* history: the generate calls that ended by raising an auth error

vars ==
    << constructed, api_keys, combination_status, current_key_index,
       current_model_index, total_requests, successful_requests,
       failed_requests, failover_count, client_key, now, pc, attempt,
       inflight, ret, call_log, last_outcome, auth_raised, calls_made, call_start,
       threads, performed, auth_calls >>

(***************************************************************************)
(* Construction.                                                           *)
(***************************************************************************)
\* the possible environments: os.getenv(f"GOOGLE_API_KEY_{i}") is unset (<< >>)
\* or holds that slot's key
Environments == [1..MaxKeys -> {<< >>, <<"GOOGLE_API_KEY">>}]

\* __init__'s while loop: keys are read from slot 1 on, up to the first unset slot;
\* the key of slot i is written << "GOOGLE_API_KEY", i >>
RECURSIVE LoadApiKeys(_, _)
LoadApiKeys(env, key_index) ==
    IF key_index \in DOMAIN env /\ env[key_index] # << >>
    THEN << env[key_index] \o <<key_index>> >> \o LoadApiKeys(env, key_index + 1)
    ELSE << >>

\* _get_combo_key: f"key_{key_idx+1}_{model}"
GetComboKey(key_idx, model) == << "key", key_idx + 1, model >>

\* the record every combination starts with
InitialStatus ==
    [ status |-> "untested", last_success |-> None, last_failure |-> None,
      success_count |-> 0, failure_count |-> 0, consecutive_failures |-> 0 ]

\* Fault-injected variant of __init__'s nested loops: the combo key leaves out
\* the key number, so the records of different keys fall on one another
InitCombinationStatusPerModel(keys) ==
    [ c \in { << "key", 1, models[m] >> :
                k \in 0..(Len(keys) - 1), m \in 1..Len(models) }
        |-> InitialStatus ]

\* __init__'s nested for loops over range(len(api_keys)) and models
InitCombinationStatus(keys) ==
    [ c \in { GetComboKey(k, models[m]) :
                k \in 0..(Len(keys) - 1), m \in 1..Len(models) }
        |-> InitialStatus ]

(***************************************************************************)
(* The registry: _update_combo_status and _should_skip_combo.              *)
(***************************************************************************)
\* Fault-injected variants of _update_combo_status.
\* (1) a success leaves consecutive_failures as it was
UpdateComboStatusKeepsStreak(cs, key_idx, model, success, error_type, t) ==
    LET combo_key == GetComboKey(key_idx, model)
        status_data == cs[combo_key]
    IN  IF success
        THEN [cs EXCEPT ![combo_key] =
                [status_data EXCEPT !.status = "working",
                                    !.last_success = t,
                                    !.success_count = @ + 1]]
        ELSE [cs EXCEPT ![combo_key] =
                [status_data EXCEPT !.last_failure = t,
                                    !.failure_count = @ + 1,
                                    !.consecutive_failures = @ + 1,
                                    !.status =
                                        IF error_type = "quota" THEN "quota_exceeded"
                                        ELSE IF error_type = "auth" THEN "auth_error"
                                        ELSE "error"]]

\* (2) a success also clears failure_count
UpdateComboStatusClearsFailures(cs, key_idx, model, success, error_type, t) ==
    LET combo_key == GetComboKey(key_idx, model)
        status_data == cs[combo_key]
    IN  IF success
        THEN [cs EXCEPT ![combo_key] =
                [status_data EXCEPT !.status = "working",
                                    !.last_success = t,
                                    !.success_count = @ + 1,
                                    !.failure_count = 0,
                                    !.consecutive_failures = 0]]
        ELSE [cs EXCEPT ![combo_key] =
                [status_data EXCEPT !.last_failure = t,
                                    !.failure_count = @ + 1,
                                    !.consecutive_failures = @ + 1,
                                    !.status =
                                        IF error_type = "quota" THEN "quota_exceeded"
                                        ELSE IF error_type = "auth" THEN "auth_error"
                                        ELSE "error"]]

\* (3) a failure sets consecutive_failures to 1
UpdateComboStatusStreakOfOne(cs, key_idx, model, success, error_type, t) ==
    LET combo_key == GetComboKey(key_idx, model)
        status_data == cs[combo_key]
    IN  IF success
        THEN [cs EXCEPT ![combo_key] =
                [status_data EXCEPT !.status = "working",
                                    !.last_success = t,
                                    !.success_count = @ + 1,
                                    !.consecutive_failures = 0]]
        ELSE [cs EXCEPT ![combo_key] =
                [status_data EXCEPT !.last_failure = t,
                                    !.failure_count = @ + 1,
                                    !.consecutive_failures = 1,
                                    !.status =
                                        IF error_type = "quota" THEN "quota_exceeded"
                                        ELSE IF error_type = "auth" THEN "auth_error"
                                        ELSE "error"]]

\* (4) an auth failure marks every record of the same key auth_error
UpdateComboStatusWholeKey(cs, key_idx, model, success, error_type, t) ==
    LET combo_key == GetComboKey(key_idx, model)
        status_data == cs[combo_key]
        recorded ==
            IF success
            THEN [cs EXCEPT ![combo_key] =
                    [status_data EXCEPT !.status = "working",
                                        !.last_success = t,
                                        !.success_count = @ + 1,
                                        !.consecutive_failures = 0]]
            ELSE [cs EXCEPT ![combo_key] =
                    [status_data EXCEPT !.last_failure = t,
                                        !.failure_count = @ + 1,
                                        !.consecutive_failures = @ + 1,
                                        !.status =
                                            IF error_type = "quota" THEN "quota_exceeded"
                                            ELSE IF error_type = "auth" THEN "auth_error"
                                            ELSE "error"]]
    IN  IF ~ success /\ error_type = "auth"
        THEN [c \in DOMAIN cs |->
                 IF c[2] = key_idx + 1
                 THEN [recorded[c] EXCEPT !.status = "auth_error"]
                 ELSE recorded[c]]
        ELSE recorded

\* _update_combo_status, as the new value of combination_status; t is datetime.now()
UpdateComboStatus(cs, key_idx, model, success, error_type, t) ==
    LET combo_key == GetComboKey(key_idx, model)
        status_data == cs[combo_key]
    IN  IF success
        THEN [cs EXCEPT ![combo_key] =
                [status_data EXCEPT !.status = "working",
                                    !.last_success = t,
                                    !.success_count = @ + 1,
                                    !.consecutive_failures = 0]]
        ELSE [cs EXCEPT ![combo_key] =
                [status_data EXCEPT !.last_failure = t,
                                    !.failure_count = @ + 1,
                                    !.consecutive_failures = @ + 1,
                                    !.status =
                                        IF error_type = "quota" THEN "quota_exceeded"
                                        ELSE IF error_type = "auth" THEN "auth_error"
                                        ELSE "error"]]

\* Fault-injected variant of _should_skip_combo: the cooldown test is >= for >
ShouldSkipComboInclusive(cs, key_idx, model, t) ==
    LET status_data == cs[GetComboKey(key_idx, model)]
    IN  IF status_data.status = "untested" THEN FALSE
        ELSE IF status_data.status = "working" THEN FALSE
        ELSE IF status_data.status = "quota_exceeded" /\ status_data.last_failure # None
             THEN ~ (t - status_data.last_failure >= CooldownMinutes)
        ELSE IF status_data.status = "auth_error" THEN TRUE
        ELSE IF status_data.consecutive_failures >= MaxConsecutiveFailures THEN TRUE
        ELSE FALSE

\* Fault-injected variant of _should_skip_combo: the streak test is > for >=
ShouldSkipComboLateStreak(cs, key_idx, model, t) ==
    LET status_data == cs[GetComboKey(key_idx, model)]
    IN  IF status_data.status = "untested" THEN FALSE
        ELSE IF status_data.status = "working" THEN FALSE
        ELSE IF status_data.status = "quota_exceeded" /\ status_data.last_failure # None
             THEN ~ (t - status_data.last_failure > CooldownMinutes)
        ELSE IF status_data.status = "auth_error" THEN TRUE
        ELSE IF status_data.consecutive_failures > MaxConsecutiveFailures THEN TRUE
        ELSE FALSE

\* Fault-injected variant of _should_skip_combo: the cooldown of a
\* quota_exceeded record is never applied
ShouldSkipComboNoCooldown(cs, key_idx, model, t) ==
    LET status_data == cs[GetComboKey(key_idx, model)]
    IN  IF status_data.status = "untested" THEN FALSE
        ELSE IF status_data.status = "working" THEN FALSE
        ELSE IF status_data.status = "quota_exceeded" /\ status_data.last_failure # None
             THEN FALSE
        ELSE IF status_data.status = "auth_error" THEN TRUE
        ELSE IF status_data.consecutive_failures >= MaxConsecutiveFailures THEN TRUE
        ELSE FALSE

\* _should_skip_combo; t is datetime.now().  A quota_exceeded record whose
\* last_failure is None falls through to the tests below it, as in the code.
ShouldSkipCombo(cs, key_idx, model, t) ==
    LET status_data == cs[GetComboKey(key_idx, model)]
    IN  IF status_data.status = "untested" THEN FALSE
        ELSE IF status_data.status = "working" THEN FALSE
        ELSE IF status_data.status = "quota_exceeded" /\ status_data.last_failure # None
             THEN ~ (t - status_data.last_failure > CooldownMinutes)
        ELSE IF status_data.status = "auth_error" THEN TRUE
        ELSE IF status_data.consecutive_failures >= MaxConsecutiveFailures THEN TRUE
        ELSE FALSE

(***************************************************************************)
(* _find_next_combination: the while loop, from cursor (ki, mi) with       *)
(* `attempts` candidates already examined.  The result is the cursor the   *)
(* search leaves behind and whether it returned a combination.             *)
(***************************************************************************)
RECURSIVE FindNextLoop(_, _, _, _, _, _)
FindNextLoop(cs, keys, ki, mi, attempts, t) ==
    IF ~ (attempts < Len(keys) * Len(models))
    THEN [found |-> FALSE, key_index |-> ki, model_index |-> mi]
    ELSE LET wrap == mi + 1 >= Len(models)
             mi2  == IF wrap THEN 0 ELSE mi + 1
             ki2  == IF wrap
                     THEN (IF ki + 1 >= Len(keys) THEN 0 ELSE ki + 1)
                     ELSE ki
         IN  IF ~ ShouldSkipCombo(cs, ki2, models[mi2 + 1], t)
             THEN [found |-> TRUE, key_index |-> ki2, model_index |-> mi2]
             ELSE FindNextLoop(cs, keys, ki2, mi2, attempts + 1, t)

\* Fault-injected variant of _find_next_combination: the key index is advanced
\* first, and the candidate is not tested
FindNextCombinationKeyFirst(cs, keys, ki, mi, t) ==
    [ found |-> TRUE,
      key_index |-> IF ki + 1 >= Len(keys) THEN 0 ELSE ki + 1,
      model_index |-> mi ]

\* Fault-injected variant of _find_next_combination: one candidate fewer is
\* examined (attempts starts at 1)
FindNextCombinationOneShort(cs, keys, ki, mi, t) ==
    FindNextLoop(cs, keys, ki, mi, 1, t)

\* Fault-injected variant of _find_next_combination: only the first candidate
\* is examined
FindNextCombinationOneCandidate(cs, keys, ki, mi, t) ==
    FindNextLoop(cs, keys, ki, mi, Len(keys) * Len(models) - 1, t)

\* Fault-injected variant of _find_next_combination: when nothing is found the
\* cursor is put to (0, 0)
FindNextCombinationToOrigin(cs, keys, ki, mi, t) ==
    LET r == FindNextLoop(cs, keys, ki, mi, 0, t)
    IN  IF r.found THEN r
        ELSE [found |-> FALSE, key_index |-> 0, model_index |-> 0]

\* Fault-injected variant of _find_next_combination: the model index is
\* advanced without wrapping, and the candidate is not tested
FindNextCombinationNoWrap(cs, keys, ki, mi, t) ==
    [found |-> TRUE, key_index |-> ki, model_index |-> mi + 1]

FindNextCombination(cs, keys, ki, mi, t) == FindNextLoop(cs, keys, ki, mi, 0, t)

(***************************************************************************)
(* Error classification (generate's except block).  An error message is a  *)
(* sequence of text fragments; `phrase in error_msg` is modelled as one of *)
(* the fragments, lowercased, being the phrase.                            *)
(***************************************************************************)
\* str.lower() on the fragments used here
Lower(w) ==
    CASE w = "RESOURCE EXHAUSTED" -> "resource exhausted"
      [] w = "API key"            -> "api key"
      [] w = "Quota"              -> "quota"
      [] w = "NOT FOUND"          -> "not found"
      [] OTHER                    -> w

Contains(error_msg, phrases) ==
    \E i \in 1..Len(error_msg) : Lower(error_msg[i]) \in phrases

QuotaPhrases ==
    {"quota", "rate limit", "429", "resource exhausted", "too many requests"}
AuthPhrases == {"api key", "authentication", "unauthorized", "invalid key"}
NotFoundPhrases == {"404", "not found"}

\* Fault-injected variant of the classification: the auth phrases are tested
\* before the quota phrases
ClassifyErrorAuthFirst(error_msg) ==
    IF Contains(error_msg, AuthPhrases) THEN "auth"
    ELSE IF Contains(error_msg, QuotaPhrases) THEN "quota"
    ELSE IF Contains(error_msg, NotFoundPhrases) THEN "model_not_found"
    ELSE "other"

ClassifyError(error_msg) ==
    IF Contains(error_msg, QuotaPhrases) THEN "quota"
    ELSE IF Contains(error_msg, AuthPhrases) THEN "auth"
    ELSE IF Contains(error_msg, NotFoundPhrases) THEN "model_not_found"
    ELSE "other"

\* the error messages the model call raises in this model
ErrorMessages ==
    { <<"429", "RESOURCE EXHAUSTED">>,
      <<"Quota", "API key">>,
      <<"API key", "not valid">>,
      <<"unauthorized", "404">>,
      <<"404", "NOT FOUND">>,
      <<"timeout">> }

(***************************************************************************)
(* get_current_status.  success_rate is successful/total*100, kept as the  *)
(* exact fraction num/den (den = 1 when there is no request).              *)
(***************************************************************************)
\* Fault-injected variant of the success_rate expression: no test of
\* total_requests > 0 before dividing
SuccessRateUnguarded(successful, total) ==
    [num |-> successful * 100, den |-> total]

SuccessRate(successful, total) ==
    IF total > 0 THEN [num |-> successful * 100, den |-> total]
    ELSE [num |-> 0, den |-> 1]

GetCurrentStatus ==
    [ current_key |-> current_key_index + 1,
      current_model |-> models[current_model_index + 1],
      total_keys |-> Len(api_keys),
      total_models |-> Len(models),
      total_combinations |-> Len(api_keys) * Len(models),
      working_combinations |->
          Cardinality({c \in DOMAIN combination_status :
                          combination_status[c].status = "working"}),
      quota_exceeded_combinations |->
          Cardinality({c \in DOMAIN combination_status :
                          combination_status[c].status = "quota_exceeded"}),
      total_requests |-> total_requests,
      successful_requests |-> successful_requests,
      failed_requests |-> failed_requests,
      failover_count |-> failover_count,
      success_rate |-> SuccessRate(successful_requests, total_requests) ]

(***************************************************************************)
(* The state after construction.                                           *)
(***************************************************************************)
\* Fault-injected variant of the test for no keys: one key counts as none
NoKeysOrOne(keys) == Len(keys) <= 1

\* `if not self.api_keys`
NoKeys(keys) == keys = << >>

Init ==
    \E env \in Environments :
        LET keys == LoadApiKeys(env, 1)
        IN  /\ api_keys = keys
            /\ now = 0
            /\ pc = "idle"
            /\ attempt = 0
            /\ inflight = << >>
            /\ call_log = << >>
            /\ auth_raised = {}
            /\ calls_made = 0
            /\ call_start = << >>
            /\ threads = << >>
            /\ performed = << >>
            /\ auth_calls = 0
            /\ IF NoKeys(keys)
               THEN \* raise ValueError("No Google AI API keys found ...")
                    /\ constructed = FALSE
                    /\ combination_status = << >>
                    /\ last_outcome = << >>
                    /\ current_key_index = None
                    /\ current_model_index = None
                    /\ total_requests = None
                    /\ successful_requests = None
                    /\ failed_requests = None
                    /\ failover_count = None
                    /\ client_key = << >>
                    /\ ret = [op |-> "init", kind |-> "ValueError"]
               ELSE /\ constructed = TRUE
                    /\ combination_status = InitCombinationStatus(keys)
                    /\ last_outcome =
                          [c \in DOMAIN InitCombinationStatus(keys) |-> "none"]
                    /\ current_key_index = 0
                    /\ current_model_index = 0
                    /\ total_requests = 0
                    /\ successful_requests = 0
                    /\ failed_requests = 0
                    /\ failover_count = 0
                    /\ client_key = keys[1]
                    /\ ret = [op |-> "init", kind |-> "ok"]

(***************************************************************************)
(* generate().                                                             *)
(***************************************************************************)
\* Fault-injected variant of max_failovers: the number of keys alone
MaxFailoversKeysOnly == Len(api_keys)

\* max_failovers = len(self.api_keys) * len(self.models)
MaxFailovers == Len(api_keys) * Len(models)

\* the configured combinations, as (key_idx, model) pairs
Combinations ==
    { <<k, models[m]>> : k \in 0..(Len(api_keys) - 1), m \in 1..Len(models) }

\* Fault-injected variant of the loop test: <= for <
LoopContinuesInclusive(att) == att <= MaxFailovers

\* the loop test: while attempt < max_failovers
LoopContinues(att) == att < MaxFailovers

\* the entry of generate: self.total_requests += 1; attempt = 0
GenerateBegin ==
    /\ constructed
    /\ pc = "idle"
    /\ total_requests < MaxRequests
    /\ calls_made + Len(api_keys) * Len(models) <= MaxCalls
    /\ total_requests' = total_requests + 1
    /\ attempt' = 0
    /\ pc' = "loop"
    /\ call_log' = << >>
    /\ ret' = [op |-> "generate", kind |-> "running"]
    /\ call_start' =
          [ successful_requests |-> successful_requests,
            failed_requests |-> failed_requests,
            failover_count |-> failover_count,
            key_index |-> current_key_index,
            model_index |-> current_model_index,
            started |-> now,
            all_skipped |-> \A c \in Combinations :
                              ShouldSkipCombo(combination_status, c[1], c[2], now) ]
    /\ UNCHANGED << constructed, api_keys, combination_status, current_key_index,
                    current_model_index, successful_requests, failed_requests,
                    failover_count, client_key, now, inflight, last_outcome,
                    auth_raised, calls_made >>
    /\ UNCHANGED << threads, performed, auth_calls >>

\* one pass through the loop head up to the model call:
\* attempt += 1; key_num, model_name are read; generate_content is called
GenerateAttempt ==
    /\ constructed
    /\ pc = "loop"
    /\ LoopContinues(attempt)
    /\ attempt' = attempt + 1
    /\ inflight' = [ api_key |-> client_key,
                     key_idx |-> current_key_index,
                     model_name |-> models[current_model_index + 1] ]
    /\ pc' = "inflight"
    /\ calls_made' = calls_made + 1
    /\ UNCHANGED << constructed, api_keys, combination_status, current_key_index,
                    current_model_index, total_requests, successful_requests,
                    failed_requests, failover_count, client_key, now, ret,
                    call_log, last_outcome, auth_raised, call_start >>
    /\ UNCHANGED << threads, performed, auth_calls >>

\* Fault-injected variant of the statements after the while: failed_requests
\* is not incremented before the raise
GenerateLoopExitUncounted ==
    /\ constructed
    /\ pc = "loop"
    /\ ~ LoopContinues(attempt)
    /\ ret' = [op |-> "generate", kind |-> "unexpected"]
    /\ pc' = "idle"
    /\ UNCHANGED << constructed, api_keys, combination_status, current_key_index,
                    current_model_index, total_requests, successful_requests,
                    failed_requests, failover_count, client_key, now, attempt,
                    inflight, call_log, last_outcome, auth_raised, calls_made,
                    call_start, threads, performed, auth_calls >>

\* the loop ends without a return: the two statements after the while
GenerateLoopExit ==
    /\ constructed
    /\ pc = "loop"
    /\ ~ LoopContinues(attempt)
    /\ failed_requests' = failed_requests + 1
    /\ ret' = [op |-> "generate", kind |-> "unexpected"]
    /\ pc' = "idle"
    /\ UNCHANGED << constructed, api_keys, combination_status, current_key_index,
                    current_model_index, total_requests, successful_requests,
                    failover_count, client_key, now, attempt, inflight,
                    call_log, last_outcome, auth_raised, calls_made, call_start >>
    /\ UNCHANGED << threads, performed, auth_calls >>

\* what the history keeps of a model call that has ended: the combination it
\* was issued with and the status recorded for its outcome
LogEntry(recorded) ==
    [ key_idx |-> inflight.key_idx, model_name |-> inflight.model_name,
      api_key |-> inflight.api_key, recorded |-> recorded ]

\* Fault-injected variant of the try block after the call: successful_requests
\* is not incremented
CallSucceedsUncounted ==
    /\ constructed
    /\ pc = "inflight"
    /\ combination_status' =
          UpdateComboStatus(combination_status, current_key_index,
                            inflight.model_name, TRUE, "none", now)
    /\ ret' = [op |-> "generate", kind |-> "text"]
    /\ pc' = "idle"
    /\ call_log' = Append(call_log, LogEntry("working"))
    /\ last_outcome' =
          [last_outcome EXCEPT
              ![GetComboKey(current_key_index, inflight.model_name)] = "success"]
    /\ UNCHANGED << constructed, api_keys, current_key_index, current_model_index,
                    total_requests, successful_requests, failed_requests,
                    failover_count, client_key, now, attempt, inflight,
                    auth_raised, calls_made, call_start, threads, performed,
                    auth_calls >>

\* Fault-injected variant of the try block after the call: the cursor is moved
\* on to the next model after a success
CallSucceedsAdvances ==
    /\ constructed
    /\ pc = "inflight"
    /\ combination_status' =
          UpdateComboStatus(combination_status, current_key_index,
                            inflight.model_name, TRUE, "none", now)
    /\ successful_requests' = successful_requests + 1
    /\ current_model_index' = (current_model_index + 1) % Len(models)
    /\ ret' = [op |-> "generate", kind |-> "text"]
    /\ pc' = "idle"
    /\ call_log' = Append(call_log, LogEntry("working"))
    /\ last_outcome' =
          [last_outcome EXCEPT
              ![GetComboKey(current_key_index, inflight.model_name)] = "success"]
    /\ UNCHANGED << constructed, api_keys, current_key_index, total_requests,
                    failed_requests, failover_count, client_key, now, attempt,
                    inflight, auth_raised, calls_made, call_start, threads,
                    performed, auth_calls >>

\* generate_content returns: the try block after the call
CallSucceeds ==
    /\ constructed
    /\ pc = "inflight"
    /\ combination_status' =
          UpdateComboStatus(combination_status, current_key_index,
                            inflight.model_name, TRUE, "none", now)
    /\ successful_requests' = successful_requests + 1
    /\ ret' = [op |-> "generate", kind |-> "text"]
    /\ pc' = "idle"
    /\ call_log' = Append(call_log, LogEntry("working"))
    /\ last_outcome' =
          [last_outcome EXCEPT
              ![GetComboKey(current_key_index, inflight.model_name)] = "success"]
    /\ UNCHANGED << constructed, api_keys, current_key_index, current_model_index,
                    total_requests, failed_requests, failover_count, client_key,
                    now, attempt, inflight, auth_raised, calls_made, call_start >>
    /\ UNCHANGED << threads, performed, auth_calls >>

\* generate_content raises an exception whose text is error_msg: the except block
CallFails(error_msg) ==
    LET error_type == ClassifyError(error_msg)
        updated == UpdateComboStatus(combination_status, current_key_index,
                                     inflight.model_name, FALSE, error_type, now)
        next_combo == FindNextCombination(updated, api_keys, current_key_index,
                                          current_model_index, now)
    IN  /\ constructed
        /\ pc = "inflight"
        /\ combination_status' = updated
        /\ call_log' = Append(call_log,
              LogEntry(updated[GetComboKey(current_key_index,
                                           inflight.model_name)].status))
        /\ last_outcome' =
              [last_outcome EXCEPT
                  ![GetComboKey(current_key_index, inflight.model_name)] = "failure"]
        /\ IF error_type = "auth"
           THEN \* raise
                /\ ret' = [op |-> "generate", kind |-> "auth"]
                /\ pc' = "idle"
                /\ auth_raised' = auth_raised \cup
                      {GetComboKey(current_key_index, inflight.model_name)}
                /\ UNCHANGED << current_key_index, current_model_index,
                                client_key, failed_requests, failover_count >>
           ELSE /\ current_key_index' = next_combo.key_index
                /\ current_model_index' = next_combo.model_index
                /\ auth_raised' = auth_raised
                /\ IF next_combo.found
                   THEN \* _configure_key, then self.failover_count += 1
                        /\ client_key' = api_keys[next_combo.key_index + 1]
                        /\ failover_count' = failover_count + 1
                        /\ pc' = "loop"
                        /\ UNCHANGED << failed_requests, ret >>
                   ELSE \* next_combo is None
                        /\ failed_requests' = failed_requests + 1
                        /\ ret' = [op |-> "generate", kind |-> "exhausted",
                                   n |-> MaxFailovers]
                        /\ pc' = "idle"
                        /\ UNCHANGED << client_key, failover_count >>
        /\ UNCHANGED << constructed, api_keys, total_requests, successful_requests,
                        now, attempt, inflight, calls_made, call_start >>
        /\ auth_calls' = auth_calls + (IF error_type = "auth" THEN 1 ELSE 0)
        /\ UNCHANGED << threads, performed >>

(***************************************************************************)
(* reset() and get_current_status().                                       *)
(***************************************************************************)
\* another operation is called: the locals of the generate call that ended
\* before it are gone, and the history of that call is dropped
ForgetLastCall ==
    /\ attempt' = 0
    /\ inflight' = << >>
    /\ call_log' = << >>
    /\ call_start' = << >>

\* the fields of the client object, as one record
ClientState ==
    [ api_keys |-> api_keys,
      combination_status |-> combination_status,
      current_key_index |-> current_key_index,
      current_model_index |-> current_model_index,
      total_requests |-> total_requests,
      successful_requests |-> successful_requests,
      failed_requests |-> failed_requests,
      failover_count |-> failover_count,
      client_key |-> client_key ]

\* Fault-injected variant of reset(): current_model_index is not set back
ResetResultKeepsModel(s) ==
    [s EXCEPT !.combination_status =
                  [c \in DOMAIN s.combination_status |-> InitialStatus],
              !.current_key_index = 0,
              !.client_key = s.api_keys[1]]

\* Fault-injected variant of reset(): the first key is not configured again
ResetResultKeepsClient(s) ==
    [s EXCEPT !.combination_status =
                  [c \in DOMAIN s.combination_status |-> InitialStatus],
              !.current_key_index = 0,
              !.current_model_index = 0]

\* Fault-injected variant of reset(): only the status field of each record is
\* set back
ResetResultStatusOnly(s) ==
    [s EXCEPT !.combination_status =
                  [c \in DOMAIN s.combination_status |->
                      [s.combination_status[c] EXCEPT !.status = "untested"]],
              !.current_key_index = 0,
              !.current_model_index = 0,
              !.client_key = s.api_keys[1]]

\* reset() as a function of the client's fields: every record is replaced by the
\* initial one, the cursor is set to (0, 0) and the first key is configured
ResetResult(s) ==
    [s EXCEPT !.combination_status =
                  [c \in DOMAIN s.combination_status |-> InitialStatus],
              !.current_key_index = 0,
              !.current_model_index = 0,
              !.client_key = s.api_keys[1]]

Reset ==
    /\ constructed
    /\ pc = "idle"
    /\ LET r == ResetResult(ClientState)
       IN  /\ api_keys' = r.api_keys
           /\ combination_status' = r.combination_status
           /\ current_key_index' = r.current_key_index
           /\ current_model_index' = r.current_model_index
           /\ total_requests' = r.total_requests
           /\ successful_requests' = r.successful_requests
           /\ failed_requests' = r.failed_requests
           /\ failover_count' = r.failover_count
           /\ client_key' = r.client_key
    /\ ret' = [op |-> "reset"]
    /\ last_outcome' = [c \in DOMAIN last_outcome |-> "none"]
    /\ auth_raised' = {}
    /\ ForgetLastCall
    /\ UNCHANGED << constructed, now, pc, calls_made >>
    /\ UNCHANGED << threads, performed, auth_calls >>

GetStatus ==
    /\ constructed
    /\ pc = "idle"
    /\ ret' = [op |-> "get_current_status", value |-> GetCurrentStatus]
    /\ ForgetLastCall
    /\ UNCHANGED << constructed, api_keys, combination_status, current_key_index,
                    current_model_index, total_requests, successful_requests,
                    failed_requests, failover_count, client_key, now, pc,
                    last_outcome, auth_raised, calls_made >>
    /\ UNCHANGED << threads, performed, auth_calls >>

(***************************************************************************)
(* The clock.  It is read at minute 0, at the minute the cooldown of a     *)
(* failure of minute 0 is just not over (CooldownMinutes), and at every    *)
(* minute after that up to MaxTime; it moves on while the program waits.   *)
(***************************************************************************)
ClockReadings == {0} \cup (CooldownMinutes..MaxTime)

Tick ==
    /\ constructed
    /\ pc \in {"idle", "inflight"}
    /\ \E t \in ClockReadings :
          /\ t > now
          /\ \A u \in ClockReadings : u > now => t <= u
          /\ now' = t
    /\ UNCHANGED << constructed, api_keys, combination_status, current_key_index,
                    current_model_index, total_requests, successful_requests,
                    failed_requests, failover_count, client_key, pc, attempt,
                    inflight, ret, call_log, last_outcome, auth_raised,
                    calls_made, call_start >>
    /\ UNCHANGED << threads, performed, auth_calls >>

Next ==
    \/ GenerateBegin
    \/ GenerateAttempt
    \/ GenerateLoopExit
    \/ CallSucceeds
    \/ \E error_msg \in ErrorMessages : CallFails(error_msg)
    \/ Reset
    \/ GetStatus
    \/ Tick

Spec == Init /\ [][Next]_vars

\* the model call returns or raises
CallReturns == CallSucceeds \/ \E error_msg \in ErrorMessages : CallFails(error_msg)

\* a step of a generate call that has begun (pc tells which one is possible)
GenerateStep == GenerateAttempt \/ GenerateLoopExit \/ CallReturns

\* Spec, with generate() running on once it has begun and every model call ending
LiveSpec == Spec /\ WF_vars(GenerateStep)

(***************************************************************************)
(* Two callers.  smart_client is one module-level object; generate() takes *)
(* no lock, so two threads calling it interleave between its statements.   *)
(* Each caller makes one generate() call.  A step of a caller is one read  *)
(* or one write of a counter (`self.x += 1` loads, adds, stores), the loop *)
(* head up to the model call, or a whole except/try tail with the registry *)
(* update and the search taken as one step: the behaviours of ConcSpec are *)
(* among the interleavings of the code, which has more of them.  The clock *)
(* stays at minute 0.                                                      *)
(***************************************************************************)
Threads == {1, 2}

CounterNames ==
    {"total_requests", "successful_requests", "failed_requests", "failover_count"}

\* self.<name>
Counter(name) ==
    CASE name = "total_requests"      -> total_requests
      [] name = "successful_requests" -> successful_requests
      [] name = "failed_requests"     -> failed_requests
      [] name = "failover_count"      -> failover_count

\* a caller that has not called generate() yet
ThreadStart ==
    [ pc |-> "start",        \* start | load | store | loop | inflight | done
      attempt |-> 0,         \* the local `attempt`
      model_name |-> "",     \* the local `model_name`
      issued_key |-> << >>,  \* the api key of self.client when the model call was made
      misattributed |-> FALSE, \* history: an outcome was recorded for another combination
      reg |-> 0,             \* the value loaded by the `+= 1` in progress
      incr |-> "",           \* the counter that `+= 1` is about
      then |-> "",           \* where the caller goes on after it
      result |-> "" ]        \* what generate() returned or raised

\* the state after construction with at least one key, before either caller runs
ConcInit ==
    \E env \in Environments :
        LET keys == LoadApiKeys(env, 1)
        IN  /\ keys # << >>
            /\ constructed = TRUE
            /\ api_keys = keys
            /\ combination_status = InitCombinationStatus(keys)
            /\ current_key_index = 0
            /\ current_model_index = 0
            /\ total_requests = 0
            /\ successful_requests = 0
            /\ failed_requests = 0
            /\ failover_count = 0
            /\ client_key = keys[1]
            /\ now = 0
            /\ pc = "idle"
            /\ attempt = 0
            /\ inflight = << >>
            /\ ret = [op |-> "init", kind |-> "ok"]
            /\ call_log = << >>
            /\ last_outcome = [c \in DOMAIN InitCombinationStatus(keys) |-> "none"]
            /\ auth_raised = {}
            /\ calls_made = 0
            /\ call_start = << >>
            /\ threads = [t \in Threads |-> ThreadStart]
            /\ performed = [c \in CounterNames |-> 0]
            /\ auth_calls = 0

\* what the single-caller model keeps beside the client's fields is not used here
SingleCallerFrame ==
    UNCHANGED << constructed, api_keys, now, pc, attempt, inflight, ret, call_log,
                 last_outcome, auth_raised, call_start, auth_calls >>

\* thread t goes on to `self.<name> += 1` and after it to `after`
StartIncr(th, name, after) ==
    [th EXCEPT !.pc = "load", !.incr = name, !.then = after]

\* Fault-injected variant of `+= 1`: the loaded value is stored back
IncrementedNot(reg) == reg

\* the value `self.x += 1` stores, from the value it loaded
Incremented(reg) == reg + 1

\* generate() is entered
ThreadBegin(t) ==
    /\ threads[t].pc = "start"
    /\ threads' = [threads EXCEPT ![t] = StartIncr(@, "total_requests", "loop")]
    /\ UNCHANGED << combination_status, current_key_index, current_model_index,
                    total_requests, successful_requests, failed_requests,
                    failover_count, client_key, performed, calls_made >>
    /\ SingleCallerFrame

\* `self.x += 1`, first half: the attribute is loaded
IncrLoad(t) ==
    /\ threads[t].pc = "load"
    /\ threads' = [threads EXCEPT ![t].reg = Counter(threads[t].incr),
                                  ![t].pc = "store"]
    /\ UNCHANGED << combination_status, current_key_index, current_model_index,
                    total_requests, successful_requests, failed_requests,
                    failover_count, client_key, performed, calls_made >>
    /\ SingleCallerFrame

\* `self.x += 1`, second half: the loaded value plus one is stored
IncrStore(t) ==
    LET th == threads[t]
        Stored(name) == IF th.incr = name THEN Incremented(th.reg) ELSE Counter(name)
    IN  /\ th.pc = "store"
        /\ total_requests' = Stored("total_requests")
        /\ successful_requests' = Stored("successful_requests")
        /\ failed_requests' = Stored("failed_requests")
        /\ failover_count' = Stored("failover_count")
        /\ performed' = [performed EXCEPT ![th.incr] = @ + 1]
        /\ threads' = [threads EXCEPT ![t] =
              [th EXCEPT !.pc = th.then, !.reg = 0, !.incr = "", !.then = "",
                         \* the locals are gone when generate() has ended
                         !.attempt = IF th.then = "done" THEN 0 ELSE th.attempt]]
        /\ UNCHANGED << combination_status, current_key_index,
                        current_model_index, client_key, calls_made >>
        /\ SingleCallerFrame

\* the loop head up to the model call: attempt += 1, model_name is read from
\* the cursor, and generate_content is called on self.client
ThreadAttempt(t) ==
    /\ threads[t].pc = "loop"
    /\ LoopContinues(threads[t].attempt)
    /\ calls_made < MaxThreadCalls
    /\ calls_made' = calls_made + 1
    /\ threads' = [threads EXCEPT ![t].attempt = @ + 1,
                                  ![t].model_name = models[current_model_index + 1],
                                  ![t].issued_key = client_key,
                                  ![t].pc = "inflight"]
    /\ UNCHANGED << combination_status, current_key_index, current_model_index,
                    total_requests, successful_requests, failed_requests,
                    failover_count, client_key, performed >>
    /\ SingleCallerFrame

\* the loop ends without a return: self.failed_requests += 1, then the raise
ThreadLoopExit(t) ==
    /\ threads[t].pc = "loop"
    /\ ~ LoopContinues(threads[t].attempt)
    /\ threads' = [threads EXCEPT ![t] =
          StartIncr([@ EXCEPT !.result = "unexpected"], "failed_requests", "done")]
    /\ UNCHANGED << combination_status, current_key_index, current_model_index,
                    total_requests, successful_requests, failed_requests,
                    failover_count, client_key, performed, calls_made >>
    /\ SingleCallerFrame

\* the 0-based index in self.api_keys of an api key
KeyIndexOf(api_key) ==
    CHOOSE k \in 0..(Len(api_keys) - 1) : api_keys[k + 1] = api_key

\* the outcome of the model call of th is recorded under self.current_key_index,
\* read now, and the local model_name: is that the combination of the call?
RecordedElsewhere(th) ==
    GetComboKey(current_key_index, th.model_name)
        # GetComboKey(KeyIndexOf(th.issued_key), th.model_name)

\* the model call of th has ended and its outcome is recorded
AfterCall(th) ==
    [th EXCEPT !.misattributed = @ \/ RecordedElsewhere(th),
               !.model_name = "", !.issued_key = << >>]

\* generate_content returns: _update_combo_status(self.current_key_index,
\* model_name, success=True), then self.successful_requests += 1 and the return
ThreadCallSucceeds(t) ==
    /\ threads[t].pc = "inflight"
    /\ combination_status' =
          UpdateComboStatus(combination_status, current_key_index,
                            threads[t].model_name, TRUE, "none", now)
    /\ threads' = [threads EXCEPT ![t] =
          StartIncr([AfterCall(@) EXCEPT !.result = "text"],
                    "successful_requests", "done")]
    /\ UNCHANGED << current_key_index, current_model_index, total_requests,
                    successful_requests, failed_requests, failover_count,
                    client_key, performed, calls_made >>
    /\ SingleCallerFrame

\* generate_content raises: the except block up to the counter it increments
ThreadCallFails(t, error_msg) ==
    LET error_type == ClassifyError(error_msg)
        updated == UpdateComboStatus(combination_status, current_key_index,
                                     threads[t].model_name, FALSE, error_type, now)
        next_combo == FindNextCombination(updated, api_keys, current_key_index,
                                          current_model_index, now)
    IN  /\ threads[t].pc = "inflight"
        /\ combination_status' = updated
        /\ IF error_type = "auth"
           THEN \* raise
                /\ threads' = [threads EXCEPT ![t] =
                      [AfterCall(@) EXCEPT !.pc = "done", !.result = "auth",
                                           !.attempt = 0]]
                /\ UNCHANGED << current_key_index, current_model_index, client_key >>
           ELSE /\ current_key_index' = next_combo.key_index
                /\ current_model_index' = next_combo.model_index
                /\ IF next_combo.found
                   THEN /\ client_key' = api_keys[next_combo.key_index + 1]
                        /\ threads' = [threads EXCEPT ![t] =
                              StartIncr(AfterCall(@), "failover_count", "loop")]
                   ELSE /\ client_key' = client_key
                        /\ threads' = [threads EXCEPT ![t] =
                              StartIncr([AfterCall(@) EXCEPT !.result = "exhausted"],
                                        "failed_requests", "done")]
        /\ UNCHANGED << total_requests, successful_requests, failed_requests,
                        failover_count, performed, calls_made >>
        /\ SingleCallerFrame

ConcNext ==
    \E t \in Threads :
        \/ ThreadBegin(t)
        \/ IncrLoad(t)
        \/ IncrStore(t)
        \/ ThreadAttempt(t)
        \/ ThreadLoopExit(t)
        \/ ThreadCallSucceeds(t)
        \/ \E error_msg \in ErrorMessages : ThreadCallFails(t, error_msg)

ConcSpec == ConcInit /\ [][ConcNext]_vars

(***************************************************************************)
(* The claims.                                                             *)
(***************************************************************************)
\* a generate call has just ended (nothing was called after it)
GenerateEnded == constructed /\ pc = "idle" /\ ret.op = "generate"

\* the model calls issued by the current/last generate call
CallsIssued == Len(call_log) + (IF pc = "inflight" THEN 1 ELSE 0)

\* the registry record of combination (key_idx, model)
StatusOf(key_idx, model) == combination_status[GetComboKey(key_idx, model)]

\* the case of C1: the first generate call of a client with two keys has ended
\* after exactly two model calls, the first recorded as a quota failure and
\* the second as a success
C1_Case ==
    /\ GenerateEnded
    /\ Len(api_keys) = 2
    /\ total_requests = 1
    /\ Len(call_log) = 2
    /\ call_log[1].recorded = "quota_exceeded"
    /\ call_log[2].recorded = "working"

C1_Result ==
    /\ call_log[1].key_idx = 0 /\ call_log[1].model_name = models[1]
    /\ call_log[2].key_idx = 0 /\ call_log[2].model_name = models[2]
    /\ ret.kind = "text"
    /\ failover_count = 1
    /\ successful_requests = 1
    /\ total_requests = 1
    /\ failed_requests = 0
    /\ StatusOf(0, models[1]).status = "quota_exceeded"
    /\ StatusOf(0, models[1]).failure_count = 1
    /\ StatusOf(0, models[2]).status = "working"
    /\ StatusOf(0, models[2]).success_count = 1
    /\ current_key_index = 0
    /\ current_model_index = 1

\* C1 (scenario of 2 credentials x 3 models): when the first generate call of a
\* client with two keys has made exactly two model calls, the first recorded
\* as a quota failure and the second as a success, then the calls went to
\* (0,0) and (0,1), the text was returned, failover_count = 1,
\* successful_requests = 1, failed_requests = 0, (0,0) is quota_exceeded with
\* failure_count 1, (0,1) is working with success_count 1, and the cursor is
\* at (0,1).
C1_QuotaThenSuccess == C1_Case => C1_Result

C1_Witness == C1_Case /\ C1_Result

\* C2 (as claimed): no model call is issued to a combination whose auth error
\* a generate call has propagated since the last reset.
C2_AuthCombinationNotCalledAgain ==
    (constructed /\ pc = "inflight") =>
        GetComboKey(inflight.key_idx, inflight.model_name) \notin auth_raised

\* C3 (as claimed): a generate call ends by returning the text, by propagating
\* the auth error or with the exhausted error, never with the error raised
\* after the loop.
C3_ThreeOutcomesOnly ==
    GenerateEnded => ret.kind \in {"text", "auth", "exhausted"}

\* C4 (as claimed): a generate call at whose start every combination was to be
\* skipped ends with the exhausted error after at most K x M model calls, with
\* failed_requests one higher and failover_count higher by the cursor advances
\* (one between two consecutive model calls).
C4_AllSkippedEndsExhausted ==
    (GenerateEnded /\ call_start.all_skipped) =>
        /\ ret.kind = "exhausted"
        /\ Len(call_log) <= Len(api_keys) * Len(models)
        /\ failed_requests = call_start.failed_requests + 1
        /\ failover_count = call_start.failover_count + Len(call_log) - 1

\* C5 (as claimed): a combination in state auth_error is still skipped after
\* every step other than a reset.
C5_AuthErrorSkippedUntilReset ==
    [][ \A c \in Combinations :
          (constructed /\ StatusOf(c[1], c[2]).status = "auth_error") =>
              \/ ret'.op = "reset"
              \/ ShouldSkipCombo(combination_status', c[1], c[2], now') ]_vars

\* C6: a generate call issues at most K x M model calls, and once begun it ends
\* (given that every model call returns or raises: LiveSpec).
C6_GenerateTerminates ==
    /\ [](constructed => CallsIssued <= Len(api_keys) * Len(models))
    /\ (pc # "idle") ~> (pc = "idle")

C6_Witness ==
    /\ GenerateEnded
    /\ Len(api_keys) = 2
    /\ Len(call_log) = 6

\* C7: consecutive_failures = 0 exactly for the combinations whose last recorded
\* outcome (since construction or the last reset) is a success or that have
\* none.
C7_StreakZeroIffLastSuccess ==
    constructed =>
        \A c \in Combinations :
            (StatusOf(c[1], c[2]).consecutive_failures = 0)
                <=> (last_outcome[GetComboKey(c[1], c[2])] \in {"success", "none"})

C7_Witness ==
    /\ constructed
    /\ \E c \in Combinations :
          /\ last_outcome[GetComboKey(c[1], c[2])] = "success"
          /\ StatusOf(c[1], c[2]).failure_count >= 1
          /\ StatusOf(c[1], c[2]).consecutive_failures = 0

\* C8: the step in which a model call succeeds leaves the called combination
\* working, with last_success the current time, success_count one higher,
\* consecutive_failures 0, and failure_count and last_failure as before.
C8_SuccessRecorded ==
    [][ (constructed /\ pc = "inflight" /\ pc' = "idle" /\ ret'.kind = "text") =>
          LET c == GetComboKey(current_key_index, inflight.model_name)
          IN  /\ combination_status'[c].status = "working"
              /\ combination_status'[c].last_success = now
              /\ combination_status'[c].success_count =
                    combination_status[c].success_count + 1
              /\ combination_status'[c].consecutive_failures = 0
              /\ combination_status'[c].failure_count =
                    combination_status[c].failure_count
              /\ combination_status'[c].last_failure =
                    combination_status[c].last_failure ]_vars

C8_Witness ==
    /\ GenerateEnded
    /\ ret.kind = "text"
    /\ LET st == StatusOf(current_key_index, models[current_model_index + 1])
       IN  /\ st.status = "working"
           /\ st.success_count = 1
           /\ st.failure_count = 2
           /\ st.consecutive_failures = 0
           /\ st.last_failure # None

\* C9: a quota_exceeded combination is skipped exactly when at most the
\* five-minute cooldown has passed since its last failure, whatever its
\* consecutive_failures.
C9_QuotaCooldown ==
    constructed =>
        \A c \in Combinations :
            StatusOf(c[1], c[2]).status = "quota_exceeded" =>
                (ShouldSkipCombo(combination_status, c[1], c[2], now)
                    <=> (now - StatusOf(c[1], c[2]).last_failure <= 5))

C9_Witness ==
    /\ constructed
    /\ \E c \in Combinations :
          /\ StatusOf(c[1], c[2]).status = "quota_exceeded"
          /\ StatusOf(c[1], c[2]).consecutive_failures >= 3
          /\ now - StatusOf(c[1], c[2]).last_failure > 5
          /\ ~ ShouldSkipCombo(combination_status, c[1], c[2], now)

\* every record of s is untested with zero counters and no timestamps, and the
\* cursor of s is at (0, 0)
AllUntestedAtOrigin(s) ==
    /\ \A c \in DOMAIN s.combination_status :
          s.combination_status[c] =
              [ status |-> "untested", last_success |-> None,
                last_failure |-> None, success_count |-> 0,
                failure_count |-> 0, consecutive_failures |-> 0 ]
    /\ s.current_key_index = 0
    /\ s.current_model_index = 0

\* C10: reset() applied twice gives what reset() applied once gives, from every
\* state between operations: every record untested with zero counters and no
\* timestamps, and the cursor at (0, 0); and that is the state right after a
\* reset.
C10_ResetIdempotent ==
    (constructed /\ pc = "idle") =>
        /\ ResetResult(ResetResult(ClientState)) = ResetResult(ClientState)
        /\ AllUntestedAtOrigin(ResetResult(ClientState))
        /\ (ret.op = "reset" =>
               AllUntestedAtOrigin(ClientState)
               /\ ResetResult(ClientState) = ClientState)

C10_Witness ==
    /\ constructed
    /\ ret.op = "reset"
    /\ failover_count > 0
    /\ successful_requests > 0
    /\ AllUntestedAtOrigin(ClientState)

\* C11 (as claimed): right after reset() the records, the cursor and the four
\* request counters all have the values they have right after construction
\* (every record untested with zero counters, cursor (0, 0), counters 0).
C11_ResetRestoresConstructionState ==
    (constructed /\ ret.op = "reset") =>
        /\ AllUntestedAtOrigin(ClientState)
        /\ total_requests = 0
        /\ successful_requests = 0
        /\ failed_requests = 0
        /\ failover_count = 0

\* C12: a constructed client has exactly K x M records, one for each
\* (key index, model) pair and keyed differently for different pairs; right
\* after construction each is untested with zero counters and no timestamps;
\* and no step adds or removes a record.
C12_OneRecordPerCombination ==
    /\ [](constructed =>
            /\ Cardinality(DOMAIN combination_status) = Len(api_keys) * Len(models)
            /\ DOMAIN combination_status =
                  { GetComboKey(c[1], c[2]) : c \in Combinations }
            /\ \A c, d \in Combinations :
                  GetComboKey(c[1], c[2]) = GetComboKey(d[1], d[2]) => c = d
            /\ (ret.op = "init" =>
                   \A c \in Combinations :
                       StatusOf(c[1], c[2]) =
                           [ status |-> "untested", last_success |-> None,
                             last_failure |-> None, success_count |-> 0,
                             failure_count |-> 0, consecutive_failures |-> 0 ]))
    /\ [][DOMAIN combination_status' = DOMAIN combination_status]_vars

C12_Witness ==
    /\ constructed
    /\ Len(api_keys) = MaxKeys
    /\ ret.op = "reset"
    /\ total_requests > 0
    /\ Cardinality(DOMAIN combination_status) = MaxKeys * Len(models)

\* C13: the success_rate that get_current_status reports is a quotient with a
\* positive divisor (no division fault); it is 0 when total_requests = 0 and
\* otherwise successful_requests / total_requests * 100, which is 75 for 3 of
\* 4; and in every state of a constructed client the rate is between 0 and 100.
C13_SuccessRate ==
    constructed =>
        /\ LET r == SuccessRate(successful_requests, total_requests)
           IN  r.den > 0 /\ 0 <= r.num /\ r.num <= 100 * r.den
        /\ ret.op = "get_current_status" =>
              LET r == ret.value.success_rate
                  total == ret.value.total_requests
                  successful == ret.value.successful_requests
              IN  /\ r.den > 0
                  /\ total = total_requests /\ successful = successful_requests
                  /\ total = 0 => r.num = 0
                  /\ total > 0 => r.num * total = successful * 100 * r.den
                  /\ (successful = 3 /\ total = 4) => r.num = 75 * r.den
                  /\ 0 <= r.num /\ r.num <= 100 * r.den

C13_Witness ==
    /\ constructed
    /\ ret.op = "get_current_status"
    /\ ret.value.total_requests = 4
    /\ ret.value.successful_requests = 3
    /\ ret.value.failed_requests = 1
    /\ ret.value.success_rate.num = 75 * ret.value.success_rate.den

\* C14 (as claimed): when generate ends with the exhausted error, the number in
\* its message is the number of model calls that generate call issued.
C14_MessageCountsCallsIssued ==
    (GenerateEnded /\ ret.kind = "exhausted") => ret.n = Len(call_log)

\* C14 (amended): when generate ends with the exhausted error, the number in
\* its message is K x M, the number of configured combinations; the model
\* calls that generate call issued are at least 1 and at most that number.
C14_MessageCountsCombinations ==
    (GenerateEnded /\ ret.kind = "exhausted") =>
        /\ ret.n = Len(api_keys) * Len(models)
        /\ ret.n = Cardinality(DOMAIN combination_status)
        /\ 1 <= Len(call_log)
        /\ Len(call_log) <= ret.n

C14_Witness ==
    /\ GenerateEnded
    /\ ret.kind = "exhausted"
    /\ Len(call_log) = 1
    /\ ret.n = Len(models)

\* two callers: some counter is smaller than the `+= 1` statements completed on it
LostUpdate == \E c \in CounterNames : Counter(c) < performed[c]

\* two callers: some outcome was recorded for a combination other than the one
\* the model call was issued with
Misattribution == \E t \in Threads : threads[t].misattributed

\* C15: with two callers of generate() and no lock, an update can be lost or
\* misattributed (the state of C15_Witness is reached), and that is all the
\* race does to the counters: a counter is never larger than the number of
\* increments performed on it and is at least 1 once one was performed; while
\* one caller has not entered generate() nothing is lost or misattributed; and
\* an outcome is misattributed only when there is more than one key.
C15_RaceLosesOrMisattributes ==
    /\ \A c \in CounterNames :
          /\ Counter(c) <= performed[c]
          /\ performed[c] > 0 => Counter(c) >= 1
    /\ (\E t \in Threads : threads[t].pc = "start") =>
          ~ LostUpdate /\ ~ Misattribution
    /\ Misattribution => Len(api_keys) > 1

C15_Witness ==
    /\ performed["total_requests"] = Cardinality(Threads)
    /\ total_requests < performed["total_requests"]
    /\ \E t \in Threads :
          /\ threads[t].pc = "done"
          /\ threads[t].result = "text"
          /\ threads[t].misattributed

\* C16: construction with no key fails with the ValueError and leaves no
\* registry record, cursor or counter behind; construction with one or more
\* keys succeeds.
C16_NoKeysNoClient ==
    /\ api_keys = << >> =>
          /\ ~ constructed
          /\ ret = [op |-> "init", kind |-> "ValueError"]
          /\ DOMAIN combination_status = {}
          /\ current_key_index = None /\ current_model_index = None
          /\ total_requests = None /\ successful_requests = None
          /\ failed_requests = None /\ failover_count = None
    /\ api_keys # << >> =>
          /\ constructed
          /\ ret.op = "init" => ret.kind = "ok"

C16_Witness ==
    /\ ~ constructed
    /\ api_keys = << >>
    /\ ret.kind = "ValueError"
    /\ DOMAIN combination_status = {}

\* C17: the step in which a model call fails with an error of kind quota,
\* auth, model_not_found or other leaves the called combination with
\* last_failure the current time, failure_count and consecutive_failures one
\* higher each, status quota_exceeded for quota, auth_error for auth and error
\* for the two other kinds, and success_count and last_success as before.
C17_FailureRecorded ==
    [][ \A error_msg \in ErrorMessages :
          CallFails(error_msg) =>
              LET c == GetComboKey(current_key_index, inflight.model_name)
                  kind == ClassifyError(error_msg)
              IN  /\ combination_status'[c].last_failure = now
                  /\ combination_status'[c].failure_count =
                        combination_status[c].failure_count + 1
                  /\ combination_status'[c].consecutive_failures =
                        combination_status[c].consecutive_failures + 1
                  /\ combination_status'[c].status =
                        CASE kind = "quota" -> "quota_exceeded"
                          [] kind = "auth" -> "auth_error"
                          [] kind \in {"model_not_found", "other"} -> "error"
                  /\ combination_status'[c].success_count =
                        combination_status[c].success_count
                  /\ combination_status'[c].last_success =
                        combination_status[c].last_success ]_vars

C17_Witness ==
    /\ GenerateEnded
    /\ Len(call_log) >= 1
    /\ call_log[Len(call_log)].recorded = "error"
    /\ LET last == call_log[Len(call_log)]
           st == StatusOf(last.key_idx, last.model_name)
       IN  /\ st.status = "error"
           /\ st.consecutive_failures = 2
           /\ st.failure_count = 2
           /\ st.success_count = 1
           /\ st.last_success # None
           /\ st.last_failure = now

\* the skip rule as the specification words it, for a record st at time t
\* (a quota_exceeded record has a last failure time)
SkipRule(st, t) ==
    CASE st.status \in {"untested", "working"} -> FALSE
      [] st.status = "quota_exceeded" -> t - st.last_failure <= 5
      [] st.status = "auth_error" -> TRUE
      [] st.status = "error" -> st.consecutive_failures >= 3

\* C18: whether a combination is skipped is determined by its record and the
\* current time, by the ordered rule: in every state each combination is
\* skipped exactly when the rule says so for its record, and the same holds
\* when the record of the cursor's combination is given any status among
\* untested, working, auth_error and error together with any
\* consecutive_failures from 0 to 4: untested and working are never skipped,
\* auth_error always, error exactly from 3 on.
C18_SkipRule ==
    constructed =>
        /\ \A c \in Combinations :
              ShouldSkipCombo(combination_status, c[1], c[2], now)
                  = SkipRule(StatusOf(c[1], c[2]), now)
        /\ \A status \in {"untested", "working", "auth_error", "error"},
              n \in 0..(MaxConsecutiveFailures + 1) :
              LET model == models[current_model_index + 1]
                  st == [StatusOf(current_key_index, model) EXCEPT
                            !.status = status, !.consecutive_failures = n]
                  cs == [combination_status EXCEPT
                            ![GetComboKey(current_key_index, model)] = st]
              IN  ShouldSkipCombo(cs, current_key_index, model, now)
                     = (status = "auth_error" \/ (status = "error" /\ n >= 3))

C18_Witness ==
    /\ constructed
    /\ \E c, d \in Combinations :
          /\ StatusOf(c[1], c[2]).status = "error"
          /\ StatusOf(c[1], c[2]).consecutive_failures = 3
          /\ ShouldSkipCombo(combination_status, c[1], c[2], now)
          /\ StatusOf(d[1], d[2]).status = "error"
          /\ StatusOf(d[1], d[2]).consecutive_failures < 3
          /\ ~ ShouldSkipCombo(combination_status, d[1], d[2], now)

\* the j-th combination after (ki, mi) in row-major order over the grid of
\* K keys x M models, wrapping from the last one to (0, 0)
CandidateAfter(ki, mi, j) ==
    LET p == (ki * Len(models) + mi + j) % (Len(api_keys) * Len(models))
    IN  << p \div Len(models), p % Len(models) >>

\* the search as the specification words it: the first of the K x M
\* candidates after (ki, mi) that is not skipped, or none and the K x M-th
FirstEligibleAfter(cs, ki, mi, t) ==
    LET n == Len(api_keys) * Len(models)
        eligible == { j \in 1..n :
                        ~ ShouldSkipCombo(cs, CandidateAfter(ki, mi, j)[1],
                                          models[CandidateAfter(ki, mi, j)[2] + 1], t) }
        first == IF eligible = {} THEN n
                 ELSE CHOOSE j \in eligible : \A i \in eligible : j <= i
    IN  [ found |-> eligible # {},
          key_index |-> CandidateAfter(ki, mi, first)[1],
          model_index |-> CandidateAfter(ki, mi, first)[2] ]

\* C19: from every cursor the search returns the first candidate that is not
\* skipped among the K x M combinations taken in row-major order from just
\* after the cursor, wrapping round, the K x M-th being the combination the
\* cursor is on; it reports none found exactly when all K x M are skipped; and
\* the step of generate that searches leaves the cursor on the candidate
\* returned (on the starting combination when none is found).
C19_SearchOrder ==
    /\ [](constructed =>
            /\ CandidateAfter(current_key_index, current_model_index,
                              Len(api_keys) * Len(models))
                  = << current_key_index, current_model_index >>
            /\ FindNextCombination(combination_status, api_keys, current_key_index,
                                   current_model_index, now)
                  = FirstEligibleAfter(combination_status, current_key_index,
                                       current_model_index, now))
    /\ [][ (constructed /\ pc = "inflight" /\ pc' # "inflight"
               /\ ret'.kind \notin {"text", "auth"}) =>
             LET r == FirstEligibleAfter(combination_status', current_key_index,
                                         current_model_index, now)
             IN  /\ current_key_index' = r.key_index
                 /\ current_model_index' = r.model_index
                 /\ r.found <=> pc' = "loop"
                 /\ ~ r.found =>
                       /\ current_key_index' = current_key_index
                       /\ current_model_index' = current_model_index ]_vars

C19_Witness ==
    /\ GenerateEnded
    /\ Len(api_keys) = 2
    /\ Len(call_log) = 6
    /\ call_log[6].key_idx = 1 /\ call_log[6].model_name = models[3]
    /\ ShouldSkipCombo(combination_status, 0, models[1], now)
    /\ current_key_index = 0
    /\ current_model_index = 1

\* the text fragments error messages are made of here: every phrase tested for,
\* some of them in upper or mixed case, and two that match nothing
Fragments ==
    QuotaPhrases \cup AuthPhrases \cup NotFoundPhrases
        \cup {"RESOURCE EXHAUSTED", "API key", "Quota", "NOT FOUND",
              "timeout", "not valid"}

\* the error messages of 1 to MaxFragments fragments
MessageSamples ==
    UNION { [1..n -> Fragments] : n \in 1..MaxFragments }

\* one of the fragments of msg is, whatever its case, one of the phrases
Mentions(msg, phrases) ==
    \E i \in DOMAIN msg :
        \/ msg[i] \in phrases
        \/ msg[i] = "RESOURCE EXHAUSTED" /\ "resource exhausted" \in phrases
        \/ msg[i] = "API key" /\ "api key" \in phrases
        \/ msg[i] = "Quota" /\ "quota" \in phrases
        \/ msg[i] = "NOT FOUND" /\ "not found" \in phrases

\* C20: every error message is classified as exactly one of quota, auth,
\* model_not_found and other, with quota before auth before model_not_found:
\* a message mentioning a quota phrase is quota whatever else it mentions, one
\* mentioning an auth phrase and no quota phrase is auth, one mentioning only
\* 404 / not found is model_not_found, any other is other.  In a step in which
\* the model call fails, the error is propagated at once exactly when it is
\* classified auth; otherwise the search runs and generate goes on to the next
\* attempt or ends exhausted; and model_not_found and other leave the same
\* registry, the combination in status error.
C20_ClassificationPriority ==
    /\ [](ret.op = "init" =>
            \A msg \in MessageSamples :
                LET q == Mentions(msg, {"quota", "rate limit", "429",
                                        "resource exhausted", "too many requests"})
                    a == Mentions(msg, {"api key", "authentication",
                                        "unauthorized", "invalid key"})
                    n == Mentions(msg, {"404", "not found"})
                IN  ClassifyError(msg) =
                        IF q THEN "quota"
                        ELSE IF a THEN "auth"
                        ELSE IF n THEN "model_not_found"
                        ELSE "other")
    /\ [][ \A error_msg \in ErrorMessages :
             CallFails(error_msg) =>
                 LET kind == ClassifyError(error_msg)
                     c == GetComboKey(current_key_index, inflight.model_name)
                 IN  /\ kind = "auth" <=> (pc' = "idle" /\ ret'.kind = "auth")
                     /\ kind # "auth" =>
                           \/ pc' = "loop"
                           \/ pc' = "idle" /\ ret'.kind = "exhausted"
                     /\ kind \in {"model_not_found", "other"} =>
                           /\ combination_status'[c].status = "error"
                           /\ combination_status' =
                                 UpdateComboStatus(combination_status,
                                     current_key_index, inflight.model_name,
                                     FALSE, "other", now)
                           /\ combination_status' =
                                 UpdateComboStatus(combination_status,
                                     current_key_index, inflight.model_name,
                                     FALSE, "model_not_found", now) ]_vars

C20_Witness ==
    /\ GenerateEnded
    /\ ret.kind = "auth"
    /\ Len(call_log) = 3
    /\ call_log[1].recorded = "quota_exceeded"
    /\ call_log[2].recorded = "error"
    /\ call_log[3].recorded = "auth_error"

\* C21: in the step in which a model call fails with a non-auth error,
\* generate ends with the exhausted error exactly when every one of the K x M
\* combinations, the one that just failed included, is to be skipped (and then
\* failed_requests is one higher and failover_count as before); when some
\* combination is eligible the cursor moves to the first eligible one in search
\* order, failover_count is one higher, failed_requests is as before and the
\* loop goes on.
C21_ExhaustedOnlyIfAllSkipped ==
    [][ (constructed /\ pc = "inflight" /\ pc' # "inflight"
            /\ ret'.kind \notin {"text", "auth"}) =>
          LET all_skipped ==
                  \A c \in Combinations :
                      ShouldSkipCombo(combination_status', c[1], c[2], now)
              first == FirstEligibleAfter(combination_status', current_key_index,
                                          current_model_index, now)
          IN  /\ (pc' = "idle" /\ ret'.kind = "exhausted") <=> all_skipped
              /\ all_skipped =>
                    /\ failed_requests' = failed_requests + 1
                    /\ failover_count' = failover_count
              /\ ~ all_skipped =>
                    /\ pc' = "loop"
                    /\ current_key_index' = first.key_index
                    /\ current_model_index' = first.model_index
                    /\ ~ ShouldSkipCombo(combination_status', current_key_index',
                                         models[current_model_index' + 1], now)
                    /\ failover_count' = failover_count + 1
                    /\ failed_requests' = failed_requests ]_vars

C21_Witness ==
    /\ GenerateEnded
    /\ ret.kind = "exhausted"
    /\ Len(call_log) = 2
    /\ call_log[1].recorded = "error"
    /\ failover_count = call_start.failover_count + 1
    /\ failed_requests = call_start.failed_requests + 1
    /\ \A c \in Combinations : ShouldSkipCombo(combination_status, c[1], c[2], now)

\* C22: the step that enters generate raises total_requests by exactly 1 and
\* no later step of the call changes it; a call that has returned the text
\* after n model calls has raised failover_count by n - 1 and
\* successful_requests by 1 and left failed_requests as it was; and no step of
\* a generate call lowers any of the four counters.
C22_CountersPerCall ==
    /\ [](( GenerateEnded /\ ret.kind = "text") =>
            /\ Len(call_log) >= 1
            /\ failover_count = call_start.failover_count + Len(call_log) - 1
            /\ successful_requests = call_start.successful_requests + 1
            /\ failed_requests = call_start.failed_requests)
    /\ [][ constructed =>
             /\ (pc = "idle" /\ pc' = "loop") => total_requests' = total_requests + 1
             /\ pc # "idle" => total_requests' = total_requests
             /\ (pc # "idle" \/ pc' # "idle") =>
                   /\ total_requests' >= total_requests
                   /\ successful_requests' >= successful_requests
                   /\ failed_requests' >= failed_requests
                   /\ failover_count' >= failover_count ]_vars

C22_Witness ==
    /\ GenerateEnded
    /\ ret.kind = "text"
    /\ Len(call_log) = 3
    /\ total_requests = 2
    /\ failover_count = call_start.failover_count + 2
    /\ successful_requests = call_start.successful_requests + 1

\* C23: a step changes the cursor only if it is the search after a non-auth
\* failure or a reset; a generate call that has ended after a single model
\* call with the text or the auth error has left the cursor and failover_count
\* as they were when it began; the first model call of a generate call goes to
\* the combination the cursor was on when the call began; and when a generate
\* call has returned the text, the cursor's combination is working.
C23_CursorMovedBySearchAndReset ==
    /\ [][ (constructed
              /\ << current_key_index', current_model_index' >>
                    # << current_key_index, current_model_index >>) =>
             \/ ret'.op = "reset"
             \/ pc = "inflight" /\ pc' # "inflight"
                   /\ ret'.kind \notin {"text", "auth"} ]_vars
    /\ []((GenerateEnded /\ Len(call_log) = 1 /\ ret.kind \in {"text", "auth"}) =>
            /\ current_key_index = call_start.key_index
            /\ current_model_index = call_start.model_index
            /\ failover_count = call_start.failover_count)
    /\ []((constructed /\ pc = "inflight" /\ Len(call_log) = 0) =>
            /\ inflight.key_idx = call_start.key_index
            /\ inflight.model_name = models[call_start.model_index + 1])
    /\ []((GenerateEnded /\ ret.kind = "text") =>
            StatusOf(current_key_index, models[current_model_index + 1]).status
                = "working")

C23_Witness ==
    /\ constructed
    /\ pc = "inflight"
    /\ Len(call_log) = 0
    /\ total_requests = 3
    /\ failover_count = 1
    /\ inflight.key_idx = 0
    /\ inflight.model_name = models[2]
    /\ StatusOf(0, models[2]).status = "auth_error"
    /\ StatusOf(0, models[2]).success_count = 1

\* the outcomes _update_combo_status is called with
Outcomes ==
    { << TRUE, "none" >>, << FALSE, "quota" >>, << FALSE, "auth" >>,
      << FALSE, "model_not_found" >>, << FALSE, "other" >> }

\* C24: recording an outcome changes the record of the combination it is
\* recorded for and no other: the step in which a model call ends leaves the
\* record of every other combination as it was and changes the called one's;
\* and in every state, recording any outcome for the cursor's combination
\* gives a registry with the same keys, that record changed and all others
\* equal (the record looked up always exists).  The cursor and the counters
\* are no part of what is recorded.
C24_RecordOutcomeFrame ==
    /\ [][ (constructed /\ pc = "inflight" /\ pc' # "inflight") =>
             LET called == GetComboKey(current_key_index, inflight.model_name)
             IN  /\ called \in DOMAIN combination_status
                 /\ combination_status'[called] # combination_status[called]
                 /\ \A c \in DOMAIN combination_status \ {called} :
                       combination_status'[c] = combination_status[c] ]_vars
    /\ [](constructed =>
            \A o \in Outcomes :
                LET model == models[current_model_index + 1]
                    key == GetComboKey(current_key_index, model)
                    after == UpdateComboStatus(combination_status,
                                 current_key_index, model, o[1], o[2], now)
                IN  /\ key \in DOMAIN combination_status
                    /\ DOMAIN after = DOMAIN combination_status
                    /\ after[key] # combination_status[key]
                    /\ \A c \in DOMAIN combination_status \ {key} :
                          after[c] = combination_status[c])

C24_Witness ==
    /\ GenerateEnded
    /\ ret.kind = "auth"
    /\ Len(call_log) = 2
    /\ call_log[1].recorded = "error"
    /\ call_log[1].key_idx = call_log[2].key_idx
    /\ StatusOf(call_log[1].key_idx, call_log[1].model_name).status = "error"
    /\ StatusOf(call_log[2].key_idx, call_log[2].model_name).status = "auth_error"
    /\ \E c \in Combinations :
          c[1] = call_log[2].key_idx /\ StatusOf(c[1], c[2]).status = "untested"

\* C25: a search that finds nothing returns the cursor it started from (in
\* every state, for the search from the cursor); the step in which generate
\* ends with the exhausted error leaves the cursor and the configured key as
\* they were; and after that step the cursor is on the combination of the last
\* model call, with that combination's key configured.
C25_CursorAfterFailedSearch ==
    /\ [](constructed =>
            LET r == FindNextCombination(combination_status, api_keys,
                         current_key_index, current_model_index, now)
            IN  ~ r.found => /\ r.key_index = current_key_index
                             /\ r.model_index = current_model_index)
    /\ [][ (constructed /\ pc = "inflight" /\ pc' = "idle"
               /\ ret'.kind = "exhausted") =>
             /\ current_key_index' = current_key_index
             /\ current_model_index' = current_model_index
             /\ client_key' = client_key ]_vars
    /\ []((GenerateEnded /\ ret.kind = "exhausted") =>
            LET last == call_log[Len(call_log)]
            IN  /\ last.key_idx = current_key_index
                /\ last.model_name = models[current_model_index + 1]
                /\ last.api_key = client_key
                /\ client_key = api_keys[current_key_index + 1])

C25_Witness ==
    /\ GenerateEnded
    /\ ret.kind = "exhausted"
    /\ Len(call_log) = 3
    /\ current_key_index = 0
    /\ current_model_index = 2
    /\ call_log[3].model_name = models[3]
    /\ ~ FindNextCombination(combination_status, api_keys, current_key_index,
                             current_model_index, now).found

\* C26: with one caller, the key the client is configured with is always the
\* key at the cursor's key index (after construction, after every search,
\* found or not, and after reset); a model call in flight was issued with that
\* key and the cursor's model; and the step in which the call ends records its
\* outcome in the record of the key index and model it was issued with.
C26_ActiveKeyMatchesCursor ==
    /\ [](constructed =>
            /\ client_key = api_keys[current_key_index + 1]
            /\ pc = "inflight" =>
                  /\ inflight.api_key = client_key
                  /\ inflight.key_idx = current_key_index
                  /\ inflight.model_name = models[current_model_index + 1])
    /\ [][ (constructed /\ pc = "inflight" /\ pc' # "inflight") =>
             LET issued == GetComboKey(KeyIndexOf(inflight.api_key),
                                       inflight.model_name)
             IN  /\ combination_status'[issued] # combination_status[issued]
                 /\ \A c \in DOMAIN combination_status \ {issued} :
                       combination_status'[c] = combination_status[c]
                 /\ call_log'[Len(call_log')].recorded
                       = combination_status'[issued].status ]_vars

C26_Witness ==
    /\ constructed
    /\ pc = "inflight"
    /\ Len(call_log) = 3
    /\ inflight.key_idx = 1
    /\ inflight.api_key = api_keys[2]
    /\ client_key = api_keys[2]
    /\ current_key_index = 1

\* C27: between operations total_requests = successful_requests +
\* failed_requests + the number of generate calls that ended by raising an
\* auth error; a call that ended with the auth error raised neither
\* successful_requests nor failed_requests, a call that returned the text
\* raised successful_requests by 1 and nothing else, and a call that ended
\* with another error raised failed_requests by 1 and nothing else.
C27_RequestsAddUp ==
    /\ (constructed /\ pc = "idle") =>
          total_requests = successful_requests + failed_requests + auth_calls
    /\ GenerateEnded =>
          LET successes == successful_requests - call_start.successful_requests
              failures == failed_requests - call_start.failed_requests
          IN  /\ ret.kind = "auth" => successes = 0 /\ failures = 0
              /\ ret.kind = "text" => successes = 1 /\ failures = 0
              /\ ret.kind \notin {"auth", "text"} => successes = 0 /\ failures = 1

C27_Witness ==
    /\ GenerateEnded
    /\ total_requests = 3
    /\ successful_requests = 1
    /\ failed_requests = 1
    /\ auth_calls = 1

\* C28: the cursor of a constructed client is always inside the grid,
\* 0 <= current_key_index < K and 0 <= current_model_index < M, and so is
\* what the search from it returns; so self.models[current_model_index] and
\* self.api_keys[current_key_index] exist wherever they are read.
C28_CursorInGrid ==
    constructed =>
        /\ current_key_index \in 0..(Len(api_keys) - 1)
        /\ current_model_index \in 0..(Len(models) - 1)
        /\ (current_model_index + 1) \in DOMAIN models
        /\ (current_key_index + 1) \in DOMAIN api_keys
        /\ LET r == FindNextCombination(combination_status, api_keys,
                        current_key_index, current_model_index, now)
           IN  /\ r.key_index \in 0..(Len(api_keys) - 1)
               /\ r.model_index \in 0..(Len(models) - 1)

C28_Witness ==
    /\ constructed
    /\ pc = "idle"
    /\ ret.op = "get_current_status"
    /\ Len(api_keys) = 2
    /\ current_key_index = 1
    /\ current_model_index = 2
    /\ ret.value.current_key = 2
    /\ ret.value.current_model = models[3]

\* C29: every record is consistent in itself: it is untested exactly when
\* both counts are 0 and both timestamps are unset; a working record has
\* success_count >= 1 and last_success set; a quota_exceeded, auth_error or
\* error record has last_failure set and 1 <= consecutive_failures <=
\* failure_count.
C29_RecordConsistent ==
    constructed =>
        \A c \in Combinations :
            LET st == StatusOf(c[1], c[2])
            IN  /\ st.status \in {"untested", "working", "quota_exceeded",
                                  "auth_error", "error"}
                /\ st.status = "untested" <=>
                      /\ st.success_count = 0
                      /\ st.failure_count = 0
                      /\ st.last_success = None
                      /\ st.last_failure = None
                /\ st.status = "working" =>
                      st.success_count >= 1 /\ st.last_success # None
                /\ st.status \in {"quota_exceeded", "auth_error", "error"} =>
                      /\ st.last_failure # None
                      /\ 1 <= st.consecutive_failures
                      /\ st.consecutive_failures <= st.failure_count

C29_Witness ==
    /\ constructed
    /\ \E c \in Combinations :
          /\ StatusOf(c[1], c[2]).status = "error"
          /\ StatusOf(c[1], c[2]).success_count = 1
          /\ StatusOf(c[1], c[2]).failure_count = 2
          /\ StatusOf(c[1], c[2]).consecutive_failures = 1
          /\ StatusOf(c[1], c[2]).last_success # None
          /\ StatusOf(c[1], c[2]).last_failure # None

\* a generate call is under way or has just ended, so call_log and call_start
\* describe it
InCall == constructed /\ (pc \in {"loop", "inflight"} \/ GenerateEnded)

\* the i-th model call of the call was issued to combination c
LoggedTo(i, c) ==
    call_log[i].key_idx = c[1] /\ call_log[i].model_name = c[2]

\* the model call in flight goes to combination c
InflightTo(c) ==
    pc = "inflight" /\ inflight.key_idx = c[1] /\ inflight.model_name = c[2]

\* the search of the call has just put the cursor on combination c
SelectedBySearch(c) ==
    /\ pc = "loop"
    /\ Len(call_log) >= 1
    /\ current_key_index = c[1]
    /\ models[current_model_index + 1] = c[2]

\* the model calls the call has issued to combination c so far
CallsTo(c) ==
    Cardinality({ i \in 1..Len(call_log) : LoggedTo(i, c) })
        + (IF InflightTo(c) THEN 1 ELSE 0)

\* C30: within one generate call during which less than the cooldown window
\* has elapsed, a combination that failed with a quota error is neither
\* selected nor called again in that call, no combination receives more than
\* three model calls, and a combination whose failures were recorded as
\* "error" is selected again by the search (possibly right after its own
\* failure) only while its consecutive_failures is below 3; the calls a
\* combination has failed in the call never exceed its consecutive_failures.
C30_BoundedCallsPerCombination ==
    (InCall /\ now - call_start.started < CooldownMinutes) =>
        \A c \in Combinations :
            /\ CallsTo(c) <= MaxConsecutiveFailures
            /\ \A i \in 1..Len(call_log) :
                    (LoggedTo(i, c) /\ call_log[i].recorded = "quota_exceeded") =>
                        /\ \A j \in (i + 1)..Len(call_log) : ~ LoggedTo(j, c)
                        /\ ~ InflightTo(c)
                        /\ ~ SelectedBySearch(c)
            /\ (SelectedBySearch(c) /\ StatusOf(c[1], c[2]).status = "error") =>
                    StatusOf(c[1], c[2]).consecutive_failures
                        < MaxConsecutiveFailures
            /\ (CallsTo(c) >= 1 /\ ~ InflightTo(c)
                    /\ StatusOf(c[1], c[2]).status # "working") =>
                    CallsTo(c) <= StatusOf(c[1], c[2]).consecutive_failures

\* the case of C30: a generate call that began and ended at the same minute
\* issued three model calls to one combination, each recorded as "error",
\* while the two other combinations of the key stayed in their quota cooldown
\* from the call before; it ended with the exhausted error
C30_Witness ==
    /\ GenerateEnded
    /\ now = call_start.started
    /\ ret.kind = "exhausted"
    /\ Len(call_log) = 3
    /\ \E c \in Combinations :
          /\ CallsTo(c) = 3
          /\ \A i \in 1..3 : call_log[i].recorded = "error"
          /\ StatusOf(c[1], c[2]).consecutive_failures = MaxConsecutiveFailures
          /\ \A d \in Combinations \ {c} :
                StatusOf(d[1], d[2]).status = "quota_exceeded"

=============================================================================
